---- MODULE Spec2Model ----
(***************************************************************************)
(* A model of the yatube blog application (yatube/posts): the Post,        *)
(* Comment and Follow tables, the views of posts/views.py as one action    *)
(* per request, the paginator and the page cache of the index view.        *)
(***************************************************************************)
EXTENDS Integers, Sequences, FiniteSets, Bags, TLC

(***************************************************************************)
(* Bounds of the model.                                                    *)
(***************************************************************************)
\* posts that requests may create in Spec
MaxPosts == 1
\* comments that requests may create in Spec
MaxComments == 1
\* posts present at the start of a behaviour of SpecFeed
MaxSeed == 12
\* posts present at the start of a behaviour of SpecPage
MaxPagePosts == 21
\* posts created on top of the seed in SpecFeed
MaxNew == 1
\* the clock of SpecCache stops here
MaxTime == 22
\* posts ever created in SpecCache
MaxCachePosts == 1

(***************************************************************************)
(* Program constants.                                                      *)
(***************************************************************************)
NUMBER_OF_POSTS == 10
CACHE_TIMEOUT == 20

(***************************************************************************)
(* The users, groups and request inputs.                                   *)
(***************************************************************************)
Users == {"auth", "auth2"}
\* request.user of a client that is not logged in (AnonymousUser)
Anonymous == "anonymous"
Actors == Users \cup {Anonymous}
\* the usernames a URL may name: the users and one nobody has
Usernames == Users \cup {"nobody"}
Groups == {"test-slug", "new-slug"}
\* Post.group = NULL
NoGroup == "null"
Slugs == Groups \cup {"no-slug"}
Methods == {"GET", "POST"}
\* the query string has no page parameter: request.GET.get('page') is None
NoPage == "None"
PageParams == {NoPage, "x", "-1", "0", "1", "2", "3", "4"}

\* request.POST and request.FILES of a request without form fields (every GET)
NoData == [has_fields |-> FALSE, text |-> "", group |-> NoGroup, image |-> ""]

FormData(text, group, image) ==
    [has_fields |-> TRUE, text |-> text, group |-> group, image |-> image]

\* the post forms that requests submit: none, one without its text, two that differ
\* in every field
PostData ==
    {NoData, FormData("", "test-slug", "small.gif"), FormData("t1", NoGroup, ""),
     FormData("t2", "test-slug", "small.gif")}

\* the comment forms that requests submit
CommentData == {NoData, FormData("", NoGroup, ""), FormData("c1", NoGroup, "")}

\* users and groups are the User and Group tables (the usernames and the slugs);
\* race holds the requests that run one statement at a time
VARIABLES posts, post_seq, comments, follows, cache, now, response, users, groups, race

vars == <<posts, post_seq, comments, follows, cache, now, response, users, groups, race>>

(***************************************************************************)
(* Sequences.                                                              *)
(***************************************************************************)
Reverse(s) == [i \in 1..Len(s) |-> s[Len(s) + 1 - i]]

Range(s) == {s[i] : i \in 1..Len(s)}

(***************************************************************************)
(* Paginator(post_list, NUMBER_OF_POSTS).get_page(page_number)              *)
(***************************************************************************)
\* int(number) of the page parameter: the strings that are integers
IsInteger(s) == s \in {"-1", "0", "1", "2", "3", "4"}

ParseInt(s) ==
    CASE s = "-1" -> -1
      [] s = "0" -> 0
      [] s = "1" -> 1
      [] s = "2" -> 2
      [] s = "3" -> 3
      [] s = "4" -> 4

\* Paginator.num_pages: an empty list has one (empty) page
num_pages(post_list) ==
    LET count == Len(post_list)
        hits == IF count > 1 THEN count ELSE 1
    IN  (hits + NUMBER_OF_POSTS - 1) \div NUMBER_OF_POSTS

\* Paginator.validate_number: the number, or the exception it raises
validate_number(post_list, page_number) ==
    IF ~IsInteger(page_number) THEN [raises |-> "PageNotAnInteger", number |-> 0]
    ELSE IF ParseInt(page_number) < 1 THEN [raises |-> "EmptyPage", number |-> 0]
    ELSE IF ParseInt(page_number) > num_pages(post_list)
         THEN [raises |-> "EmptyPage", number |-> 0]
    ELSE [raises |-> "", number |-> ParseInt(page_number)]

\* a get_page that answers every bad number with the first page
page_number_or_first(post_list, page_number) ==
    LET v == validate_number(post_list, page_number)
    IN  IF v.raises = "" THEN v.number ELSE 1

\* Paginator.get_page: the number of the page it returns
page_number_of(post_list, page_number) ==
    LET v == validate_number(post_list, page_number)
    IN  CASE v.raises = "PageNotAnInteger" -> 1
          [] v.raises = "EmptyPage" -> num_pages(post_list)
          [] OTHER -> v.number

\* a page whose slice ends one row early
page_slice_short(post_list, number) ==
    LET count == Len(post_list)
        bottom == (number - 1) * NUMBER_OF_POSTS
        top == IF bottom + NUMBER_OF_POSTS - 1 >= count THEN count
               ELSE bottom + NUMBER_OF_POSTS - 1
    IN  SubSeq(post_list, bottom + 1, top)

\* Paginator.page(number).object_list
page_slice(post_list, number) ==
    LET count == Len(post_list)
        bottom == (number - 1) * NUMBER_OF_POSTS
        top == IF bottom + NUMBER_OF_POSTS >= count THEN count
               ELSE bottom + NUMBER_OF_POSTS
    IN  SubSeq(post_list, bottom + 1, top)

get_paginator(page_param, post_list) ==
    LET number == page_number_of(post_list, page_param)
    IN  [number |-> number, object_list |-> page_slice(post_list, number)]

(***************************************************************************)
(* The tables.                                                             *)
(***************************************************************************)
\* Post.objects.all(): Meta.ordering = ['-pub_date'], newest first
all_posts == Reverse(posts)

\* a listing that forgets the group
posts_of_any_group(g) == all_posts

\* group.posts.all()
posts_of_group(g) == SelectSeq(all_posts, LAMBDA p : p.group = g)

\* author.posts.all()
posts_of_author(a) == SelectSeq(all_posts, LAMBDA p : p.author = a)

Follow(u, a) == [user |-> u, author |-> a]

\* Follow.objects.filter(user=u, author=a).exists()
follow_exists(u, a) == BagIn(Follow(u, a), follows)

Repeat(x, n) == [i \in 1..n |-> x]

\* the join of a list of posts with the Follow rows of user u on Post.author
RECURSIVE join_following(_, _)
join_following(post_list, u) ==
    IF post_list = <<>> THEN <<>>
    ELSE Repeat(Head(post_list), CopiesIn(Follow(u, Head(post_list).author), follows))
             \o join_following(Tail(post_list), u)

\* the join on the other side of Follow: the posts of the followers of u
posts_of_followers(u) ==
    SelectSeq(all_posts, LAMBDA p : BagIn(Follow(p.author, u), follows))

\* Post.objects.filter(author__following__user=u): one row per Follow row joined
posts_followed_by(u) == join_following(all_posts, u)

\* get_object_or_404(Post, id=post_id)
post_exists(post_id) == \E i \in 1..Len(posts) : posts[i].id = post_id

post_index(post_id) == CHOOSE i \in 1..Len(posts) : posts[i].id = post_id

get_post(post_id) == posts[post_index(post_id)]

(***************************************************************************)
(* Requests and responses.                                                 *)
(***************************************************************************)
\* the path of a request
Path(route, name, post_id) ==
    [route |-> route, name |-> name, post_id |-> post_id]

NoPath == Path("", "", 0)

\* a response, with the request it answers; the fields a view does not set stay as here
Request(view, actor, path, page) ==
    [view |-> view, actor |-> actor, path |-> path, page |-> page,
     status |-> 0, template |-> "", to |-> "", next |-> NoPath,
     number |-> 0, page_obj |-> <<>>, post |-> <<>>, comments |-> <<>>,
     following |-> FALSE, errors |-> FALSE, at |-> 0, expires |-> 0]

\* render(request, template, context)
render(req, template) == [req EXCEPT !.status = 200, !.template = template]

render_page(req, template, page) ==
    [req EXCEPT !.status = 200, !.template = template,
                !.number = page.number, !.page_obj = page.object_list]

\* redirect(reverse(name, args))
redirect(req, name, target) == [req EXCEPT !.status = 302, !.to = name, !.next = target]

\* a lookup that sends the client to the index instead of raising Http404
not_found_redirected(req) == [req EXCEPT !.status = 302, !.to = "index"]

\* get_object_or_404 raising Http404
not_found(req) == [req EXCEPT !.status = 404]

\* @login_required for a client that is not logged in
redirect_to_login(req) == redirect(req, "login", req.path)

\* views without @login_required
is_authenticated_always(actor) == TRUE

is_authenticated(actor) == actor \in users

(***************************************************************************)
(* The follow views.                                                       *)
(***************************************************************************)
\* profile_follow without the look for the row
should_follow_unchecked(actor, username) == actor # username

\* profile_follow without the comparison of the usernames
should_follow_self(actor, username) == ~follow_exists(actor, username)

\* the condition under which profile_follow creates the row
should_follow(actor, username) == actor # username /\ ~follow_exists(actor, username)

\* Meta.unique_together = (('user', 'author'),): the insert raises IntegrityError
violates_unique(u, a) == BagIn(Follow(u, a), follows)

\* Follow.objects.create(user=u, author=a)
follow_create(u, a) == follows (+) SetToBag({Follow(u, a)})

\* an exception no view catches: the handler answers 500
server_error(req) == [req EXCEPT !.status = 500]

\* a delete that filters on the user alone
follow_delete_of_user(u, a) ==
    [r \in {x \in DOMAIN follows : x.user # u} |-> follows[r]]

\* Follow.objects.filter(user=u, author=a).delete()
follow_delete(u, a) ==
    [r \in DOMAIN follows \ {Follow(u, a)} |-> follows[r]]

profile_follow(actor, username) ==
    LET req == Request("profile_follow", actor,
                       Path("profile_follow", username, 0), NoPage)
    IN  /\ IF ~is_authenticated(actor)
           THEN /\ response' = redirect_to_login(req)
                /\ follows' = follows
           ELSE IF username \notin users
           THEN /\ response' = not_found(req)
                /\ follows' = follows
           ELSE IF should_follow(actor, username) /\ violates_unique(actor, username)
           THEN /\ response' = server_error(req)
                /\ follows' = follows
           ELSE /\ follows' = IF should_follow(actor, username)
                              THEN follow_create(actor, username)
                              ELSE follows
                /\ response' = redirect(req, "profile", Path("profile", username, 0))
        /\ UNCHANGED <<posts, post_seq, comments, cache, now, users, groups, race>>

profile_unfollow(actor, username) ==
    LET req == Request("profile_unfollow", actor,
                       Path("profile_unfollow", username, 0), NoPage)
    IN  /\ IF ~is_authenticated(actor)
           THEN /\ response' = redirect_to_login(req)
                /\ follows' = follows
           ELSE IF username \notin users
           THEN /\ response' = not_found(req)
                /\ follows' = follows
           ELSE /\ follows' = follow_delete(actor, username)
                /\ response' = redirect(req, "profile", Path("profile", username, 0))
        /\ UNCHANGED <<posts, post_seq, comments, cache, now, users, groups, race>>

(***************************************************************************)
(* The forms (posts/forms.py).                                             *)
(***************************************************************************)
\* PostForm(request.POST or None, files=request.FILES or None).is_valid():
\* a form without data is unbound; Post.text is required; the group, when given, is
\* one of the Group table
PostForm_is_valid(data) ==
    data.has_fields /\ data.text # "" /\ data.group \in groups \cup {NoGroup}

\* CommentForm(request.POST or None).is_valid(): Comment.text is required
CommentForm_is_valid(data) == data.has_fields /\ data.text # ""

\* a bound form that is not valid shows its errors
form_errors(data) ==
    data.has_fields /\ (data.text = "" \/ data.group \notin groups \cup {NoGroup})

\* request.POST of a request: a GET carries no form fields
form_data(method, data) == IF method = "POST" THEN data ELSE NoData

(***************************************************************************)
(* The views that list posts.                                              *)
(***************************************************************************)
group_posts(actor, slug, page) ==
    LET req == Request("group_posts", actor, Path("group_list", slug, 0), page)
    IN  /\ response' =
             IF slug \notin groups THEN not_found(req)
             ELSE render_page(req, "posts/group_list.html",
                              get_paginator(page, posts_of_group(slug)))
        /\ UNCHANGED <<posts, post_seq, comments, follows, cache, now, users, groups, race>>

\* the Follow row the profile page looks for
is_following(actor, author) == is_authenticated(actor) /\ follow_exists(actor, author)

profile(actor, username, page) ==
    LET req == Request("profile", actor, Path("profile", username, 0), page)
    IN  /\ response' =
             IF username \notin users THEN not_found(req)
             ELSE [render_page(req, "posts/profile.html",
                               get_paginator(page, posts_of_author(username)))
                     EXCEPT !.following = is_following(actor, username)]
        /\ UNCHANGED <<posts, post_seq, comments, follows, cache, now, users, groups, race>>

\* post.comments.all()
comments_of(post_id) == SelectSeq(comments, LAMBDA c : c.post = post_id)

post_detail(actor, post_id) ==
    LET req == Request("post_detail", actor, Path("post_detail", "", post_id),
                       NoPage)
    IN  /\ response' =
             IF ~post_exists(post_id) THEN not_found(req)
             ELSE [render(req, "posts/post_detail.html")
                     EXCEPT !.post = <<get_post(post_id)>>,
                            !.comments = comments_of(post_id)]
        /\ UNCHANGED <<posts, post_seq, comments, follows, cache, now, users, groups, race>>

follow_index(actor, page) ==
    LET req == Request("follow_index", actor, Path("follow_index", "", 0), page)
    IN  /\ response' =
             IF ~is_authenticated(actor) THEN redirect_to_login(req)
             ELSE render_page(req, "posts/follow.html",
                              get_paginator(page, posts_followed_by(actor)))
        /\ UNCHANGED <<posts, post_seq, comments, follows, cache, now, users, groups, race>>

(***************************************************************************)
(* The index view behind cache_page(20, key_prefix='index_page').           *)
(***************************************************************************)
\* the page the view renders, with the Expires header the cache middleware sets
index_render(req) ==
    [render_page(req, "posts/index.html", get_paginator(req.page, all_posts))
       EXCEPT !.expires = now + CACHE_TIMEOUT]

\* a cache that never expires its entries
cache_hit_unexpired(key) == key \in DOMAIN cache

\* the cache holds a page for the URL and it has not expired
cache_hit(key) == key \in DOMAIN cache /\ now < cache[key].expires

\* cache.set(key, response, timeout)
cache_set(key, page) == [k \in DOMAIN cache \cup {key} |-> IF k = key THEN page ELSE cache[k]]

\* the cached page, served to this request
cached_response(req) ==
    [cache[req.page] EXCEPT !.actor = req.actor, !.at = req.at]

index(actor, page) ==
    LET req == [Request("index", actor, Path("index", "", 0), page) EXCEPT !.at = now]
    IN  /\ IF cache_hit(page)
           THEN /\ response' = cached_response(req)
                /\ cache' = cache
           ELSE /\ response' = index_render(req)
                /\ cache' = cache_set(page, index_render(req))
        /\ UNCHANGED <<posts, post_seq, comments, follows, now, users, groups, race>>

(***************************************************************************)
(* The views that write posts and comments.                                *)
(***************************************************************************)
\* form.save() of a new post: post.author = request.user
new_post(actor, data) ==
    [id |-> post_seq + 1, author |-> actor, group |-> data.group, text |-> data.text,
     image |-> data.image]

\* post_create saves the form
creates_post(actor, method, data) ==
    is_authenticated(actor) /\ method = "POST" /\ PostForm_is_valid(form_data(method, data))

post_create(actor, method, data) ==
    LET req == Request("post_create", actor, Path("post_create", "", 0), NoPage)
        form == form_data(method, data)
    IN  /\ IF ~is_authenticated(actor)
           THEN /\ response' = redirect_to_login(req)
                /\ UNCHANGED <<posts, post_seq>>
           ELSE IF creates_post(actor, method, data)
           THEN /\ posts' = Append(posts, new_post(actor, form))
                /\ post_seq' = post_seq + 1
                /\ response' = redirect(req, "profile", Path("profile", actor, 0))
           ELSE /\ response' = [render(req, "posts/post_create.html")
                                  EXCEPT !.errors = form_errors(form)]
                /\ UNCHANGED <<posts, post_seq>>
        /\ UNCHANGED <<comments, follows, cache, now, users, groups, race>>

\* form.save() of PostForm(instance=post): a form without a file keeps the image
edited_post(post, data) ==
    [post EXCEPT !.text = data.text, !.group = data.group,
                 !.image = IF data.image = "" THEN post.image ELSE data.image]

\* an edit view open to every logged-in user
may_edit_logged_in(actor, post) == actor \in Users

\* the requester may edit the post: request.user != post.author redirects
may_edit(actor, post) == actor = post.author

post_edit(actor, method, post_id, data) ==
    LET req == Request("post_edit", actor, Path("post_edit", "", post_id), NoPage)
        form == form_data(method, data)
    IN  /\ IF ~post_exists(post_id)
           THEN /\ response' = not_found(req)
                /\ posts' = posts
           ELSE IF ~may_edit(actor, get_post(post_id))
           THEN /\ response' = redirect(req, "post_detail", Path("post_detail", "", post_id))
                /\ posts' = posts
           ELSE IF method = "POST" /\ PostForm_is_valid(form)
           THEN /\ posts' = [posts EXCEPT ![post_index(post_id)] =
                                               edited_post(get_post(post_id), form)]
                /\ response' = redirect(req, "post_detail", Path("post_detail", "", post_id))
           ELSE /\ response' = [render(req, "posts/post_create.html")
                                  EXCEPT !.errors = form_errors(form)]
                /\ posts' = posts
        /\ UNCHANGED <<post_seq, comments, follows, cache, now, users, groups, race>>

\* comment.author = request.user; comment.post = post; comment.save()
new_comment(actor, post_id, data) == [post |-> post_id, author |-> actor, text |-> data.text]

\* an add_comment that saves the comment without form.is_valid()
creates_comment_unvalidated(actor, method, post_id, data) ==
    is_authenticated(actor) /\ post_exists(post_id) /\ method = "POST"

\* add_comment saves the comment
creates_comment(actor, method, post_id, data) ==
    /\ is_authenticated(actor)
    /\ post_exists(post_id)
    /\ CommentForm_is_valid(form_data(method, data))

add_comment(actor, method, post_id, data) ==
    LET req == Request("add_comment", actor, Path("add_comment", "", post_id),
                       NoPage)
        form == form_data(method, data)
    IN  /\ IF ~is_authenticated(actor)
           THEN /\ response' = redirect_to_login(req)
                /\ comments' = comments
           ELSE IF ~post_exists(post_id)
           THEN /\ response' = not_found(req)
                /\ comments' = comments
           ELSE /\ comments' = IF creates_comment(actor, method, post_id, data)
                               THEN Append(comments, new_comment(actor, post_id, form))
                               ELSE comments
                /\ response' = redirect(req, "post_detail", Path("post_detail", "", post_id))
        /\ UNCHANGED <<posts, post_seq, follows, cache, now, users, groups, race>>

(***************************************************************************)
(* The specification of the requests.                                      *)
(***************************************************************************)
NoResponse == Request("", Anonymous, NoPath, NoPage)

\* the requests that run one statement at a time
Procs == {1, 2}

\* no such request has begun
NoRace ==
    [p \in Procs |-> [pc |-> "idle", actor |-> Anonymous, username |-> "",
                      fresh |-> FALSE, follow |-> FALSE, status |-> 0, to |-> ""]]

Init ==
    /\ posts = <<>>
    /\ post_seq = 0
    /\ comments = <<>>
    /\ follows = EmptyBag
    /\ cache = <<>>
    /\ now = 0
    /\ response = NoResponse
    /\ users = Users
    /\ groups = Groups
    /\ race = NoRace

\* the post ids a URL may name: those given out and the next one
PostIds == 1..(MaxPosts + 1)

Next ==
    \/ \E actor \in Actors, username \in Usernames : profile_follow(actor, username)
    \/ \E actor \in Actors, username \in Usernames : profile_unfollow(actor, username)
    \/ \E actor \in Actors, method \in Methods, data \in PostData :
          /\ creates_post(actor, method, data) => post_seq < MaxPosts
          /\ post_create(actor, method, data)
    \/ \E actor \in Actors, method \in Methods, post_id \in PostIds, data \in PostData :
          post_edit(actor, method, post_id, data)
    \/ \E actor \in Actors, method \in Methods, post_id \in PostIds, data \in CommentData :
          /\ creates_comment(actor, method, post_id, data) => Len(comments) < MaxComments
          /\ add_comment(actor, method, post_id, data)

Spec == Init /\ [][Next]_vars

(***************************************************************************)
(* The listings over tables that hold posts already: SpecFeed.             *)
(***************************************************************************)
\* the posts of PostPaginatorTests.setUpClass: one of auth in test-slug, then posts
\* of auth2 in new-slug
seed_post(i) ==
    [id |-> i, author |-> IF i = 1 THEN "auth" ELSE "auth2",
     group |-> IF i = 1 THEN "test-slug" ELSE "new-slug", text |-> "t1", image |-> ""]

seed(n) == [i \in 1..n |-> seed_post(i)]

InitSeeded(max) ==
    /\ \E n \in 0..max : posts = seed(n) /\ post_seq = n
    /\ comments = <<>>
    /\ follows = EmptyBag
    /\ cache = <<>>
    /\ now = 0
    /\ response = NoResponse
    /\ users = Users
    /\ groups = Groups
    /\ race = NoRace

InitFeed == InitSeeded(MaxSeed)

\* the posts that requests created on top of the seed
created_posts == {i \in 1..Len(posts) : posts[i] # seed_post(i)}

\* the page parameters of the requests of SpecFeed
FeedPages == {NoPage, "2"}
\* the forms that create posts in SpecFeed
FeedData == {FormData("t1", NoGroup, ""), FormData("t2", "test-slug", "small.gif")}

NextFeed ==
    \/ \E actor \in Users, username \in Users : profile_follow(actor, username)
    \/ \E actor \in Users, username \in Users : profile_unfollow(actor, username)
    \/ \E actor \in Users, data \in FeedData :
          /\ Cardinality(created_posts) < MaxNew
          /\ post_create(actor, "POST", data)
    \/ \E actor \in Actors, page \in FeedPages : follow_index(actor, page)
    \/ \E slug \in Slugs, page \in FeedPages : group_posts(Anonymous, slug, page)
    \/ \E actor \in Actors, username \in Usernames : profile(actor, username, NoPage)
    \/ \E post_id \in {1, MaxSeed + MaxNew + 1} : post_detail(Anonymous, post_id)

SpecFeed == InitFeed /\ [][NextFeed]_vars

(***************************************************************************)
(* The paginator over lists of every length: SpecPage.                     *)
(***************************************************************************)
InitPage == InitSeeded(MaxPagePosts)

\* the page parameters of the index requests of SpecPage
IndexPages == {NoPage, "0", "2", "4"}

NextPage ==
    \/ \E page \in IndexPages : index(Anonymous, page)
    \/ \E slug \in Groups, page \in PageParams : group_posts(Anonymous, slug, page)
    \/ \E username \in Users, page \in PageParams : profile(Anonymous, username, page)

SpecPage == InitPage /\ [][NextPage]_vars

(***************************************************************************)
(* The page cache of the index view: SpecCache.                            *)
(***************************************************************************)
\* Post.objects.create(author=, text=), not a request
Post_objects_create(author, text) ==
    /\ posts' = Append(posts, [id |-> post_seq + 1, author |-> author, group |-> NoGroup,
                               text |-> text, image |-> ""])
    /\ post_seq' = post_seq + 1
    /\ UNCHANGED <<comments, follows, cache, now, response, users, groups, race>>

\* post.delete(), not a request: on_delete=CASCADE deletes the post's comments
Post_delete(post_id) ==
    /\ post_exists(post_id)
    /\ posts' = SelectSeq(posts, LAMBDA p : p.id # post_id)
    /\ comments' = SelectSeq(comments, LAMBDA c : c.post # post_id)
    /\ UNCHANGED <<post_seq, follows, cache, now, response, users, groups, race>>

\* a second passes
Tick ==
    /\ now < MaxTime
    /\ now' = now + 1
    /\ UNCHANGED <<posts, post_seq, comments, follows, cache, response, users, groups, race>>

\* the page parameters of the requests of SpecCache
CachePages == {NoPage, "2"}

NextCache ==
    \/ \E page \in CachePages : index(Anonymous, page)
    \/ post_seq < MaxCachePosts /\ Post_objects_create("auth", "t1")
    \/ \E post_id \in 1..MaxCachePosts : Post_delete(post_id)
    \/ Tick

SpecCache == Init /\ [][NextCache]_vars

(***************************************************************************)
(* Deleting users and groups: SpecDelete.                                  *)
(***************************************************************************)
\* Post.author on_delete=CASCADE
posts_after_user_delete(u) == SelectSeq(posts, LAMBDA p : p.author # u)

\* a cascade that stops at the comments the user wrote
own_comments_deleted(u) == SelectSeq(comments, LAMBDA c : c.author # u)

\* Comment.author on_delete=CASCADE, and Comment.post on_delete=CASCADE for the
\* posts the user wrote
comments_after_user_delete(u) ==
    SelectSeq(comments, LAMBDA c : c.author # u /\ get_post(c.post).author # u)

\* Follow.user and Follow.author on_delete=CASCADE
follows_after_user_delete(u) ==
    [r \in {x \in DOMAIN follows : x.user # u /\ x.author # u} |-> follows[r]]

\* Post.group on_delete=SET_NULL
posts_after_group_delete(g) ==
    [i \in 1..Len(posts) |->
       IF posts[i].group = g THEN [posts[i] EXCEPT !.group = NoGroup] ELSE posts[i]]

\* user.delete(), not a request
User_delete(u) ==
    /\ u \in users
    /\ users' = users \ {u}
    /\ posts' = posts_after_user_delete(u)
    /\ comments' = comments_after_user_delete(u)
    /\ follows' = follows_after_user_delete(u)
    /\ UNCHANGED <<post_seq, cache, now, response, groups, race>>

\* group.delete(), not a request
Group_delete(g) ==
    /\ g \in groups
    /\ groups' = groups \ {g}
    /\ posts' = posts_after_group_delete(g)
    /\ UNCHANGED <<post_seq, comments, follows, cache, now, response, users, race>>

\* the comment form that requests submit in SpecDelete
DeleteComment == FormData("c1", NoGroup, "")

NextDelete ==
    \/ \E actor \in users, data \in FeedData :
          /\ creates_post(actor, "POST", data) => post_seq < MaxPosts
          /\ post_create(actor, "POST", data)
    \/ \E actor \in users, post_id \in PostIds, data \in FeedData :
          post_edit(actor, "POST", post_id, data)
    \/ \E actor \in users, post_id \in PostIds :
          /\ creates_comment(actor, "POST", post_id, DeleteComment)
               => Len(comments) < MaxComments
          /\ add_comment(actor, "POST", post_id, DeleteComment)
    \/ \E actor \in users, username \in Usernames : profile_follow(actor, username)
    \/ \E post_id \in PostIds : Post_delete(post_id)
    \/ \E u \in Users : User_delete(u)
    \/ \E g \in Groups : Group_delete(g)

SpecDelete == Init /\ [][NextDelete]_vars

(***************************************************************************)
(* Every view that looks an entity up: SpecViews.                          *)
(***************************************************************************)
NextViews ==
    \/ Next
    \/ \E actor \in Actors, slug \in Slugs : group_posts(actor, slug, NoPage)
    \/ \E actor \in Actors, username \in Usernames : profile(actor, username, NoPage)
    \/ \E actor \in Actors, post_id \in PostIds : post_detail(actor, post_id)

SpecViews == Init /\ [][NextViews]_vars

(***************************************************************************)
(* Two profile_follow requests that run one statement at a time: SpecRace. *)
(***************************************************************************)
\* the request has answered: its status and where it redirects
answered_with(p, r) ==
    [race EXCEPT ![p].pc = "done", ![p].status = r.status, ![p].to = r.to]

\* @login_required and author = get_object_or_404(User, username=username)
follow_begin(p, actor, username) ==
    LET req == Request("profile_follow", actor,
                       Path("profile_follow", username, 0), NoPage)
        started == [race EXCEPT ![p].actor = actor, ![p].username = username,
                                ![p].fresh = ~follow_exists(actor, username)]
    IN  /\ race[p].pc = "idle"
        /\ IF ~is_authenticated(actor)
           THEN /\ response' = redirect_to_login(req)
                /\ race' = [answered_with(p, response') EXCEPT
                               ![p].actor = actor, ![p].username = username]
           ELSE IF username \notin users
           THEN /\ response' = not_found(req)
                /\ race' = [answered_with(p, response') EXCEPT
                               ![p].actor = actor, ![p].username = username]
           ELSE /\ race' = [started EXCEPT ![p].pc = "exists"]
                /\ response' = response
        /\ UNCHANGED <<posts, post_seq, comments, follows, cache, now, users, groups>>

\* follow = Follow.objects.filter(user=request.user, author=author).exists()
follow_check(p) ==
    /\ race[p].pc = "exists"
    /\ race' = [race EXCEPT ![p].pc = "create",
                            ![p].follow = follow_exists(race[p].actor, race[p].username)]
    /\ UNCHANGED <<posts, post_seq, comments, follows, cache, now, response, users, groups>>

\* if request.user.username != username and not follow: Follow.objects.create(...)
\* return redirect('posts:profile', username=username)
follow_insert(p) ==
    LET actor == race[p].actor
        username == race[p].username
        req == Request("profile_follow", actor,
                       Path("profile_follow", username, 0), NoPage)
        creates == actor # username /\ ~race[p].follow
    IN  /\ race[p].pc = "create"
        /\ IF creates /\ violates_unique(actor, username)
           THEN /\ response' = server_error(req)
                /\ follows' = follows
           ELSE /\ follows' = IF creates THEN follow_create(actor, username) ELSE follows
                /\ response' = redirect(req, "profile", Path("profile", username, 0))
        /\ race' = answered_with(p, response')
        /\ UNCHANGED <<posts, post_seq, comments, cache, now, users, groups>>

\* the worker is free for the next request
follow_return(p) ==
    /\ race[p].pc = "done"
    /\ race' = [race EXCEPT ![p] = NoRace[p]]
    /\ UNCHANGED <<posts, post_seq, comments, follows, cache, now, response, users, groups>>

NextRace ==
    \/ \E p \in Procs, actor \in Actors, username \in Usernames :
          follow_begin(p, actor, username)
    \/ \E p \in Procs : follow_check(p)
    \/ \E p \in Procs : follow_insert(p)
    \/ \E p \in Procs : follow_return(p)
    \/ \E actor \in Users, username \in Users :
          /\ \A p \in Procs : race[p].pc = "idle"
          /\ profile_unfollow(actor, username)

SpecRace == Init /\ [][NextRace]_vars

(***************************************************************************)
(* Properties of the follow views.                                         *)
(***************************************************************************)
\* the last request was view, made by a logged-in user and naming an existing user
answered(r, view) ==
    r.view = view /\ r.actor \in Users /\ r.path.name \in Users

redirects_to_profile(r) ==
    r.status = 302 /\ r.to = "profile" /\ r.next = Path("profile", r.path.name, 0)

rows_of(bag, u, a) == CopiesIn(Follow(u, a), bag)

C1_follow_step ==
    /\ \A u \in Users, a \in Users : rows_of(follows', u, a) <= 1
    /\ \A u \in Users, a \in Users :
         \* the row stays until u unfollows a
         (rows_of(follows, u, a) = 1
            /\ ~(response'.view = "profile_unfollow" /\ response'.actor = u
                   /\ response'.path.name = a))
         => rows_of(follows', u, a) = 1
    /\ (answered(response', "profile_follow")
          /\ response'.actor # response'.path.name)
       => /\ rows_of(follows', response'.actor, response'.path.name) = 1
          /\ redirects_to_profile(response')
          /\ rows_of(follows, response'.actor, response'.path.name) = 1
             => follows' = follows

\* C1: following is idempotent. After any requests there is at most one Follow row
\* for a pair; a follow of another existing author by a logged-in user leaves exactly
\* one row for the pair and redirects to the author's profile; the row stays until
\* that user unfollows that author; a follow of an author already followed changes
\* no row.
C1_FollowIdempotent == [][C1_follow_step]_vars

\* a follow of auth2 by auth has been answered and the row is there
C1_Witness ==
    /\ answered(response, "profile_follow")
    /\ response.actor = "auth" /\ response.path.name = "auth2"
    /\ rows_of(follows, "auth", "auth2") = 1
    /\ response.status = 302

C2_self_follow_step ==
    /\ \A u \in Users : rows_of(follows', u, u) = 0
    /\ (answered(response', "profile_follow")
          /\ response'.actor = response'.path.name)
       => follows' = follows /\ redirects_to_profile(response')

\* C2: no user follows themself. A follow request whose requester is the named
\* author leaves the Follow rows as they are (and redirects to the profile), and no
\* reachable state holds a Follow row with user = author.
C2_NoSelfFollow == [][C2_self_follow_step]_vars

\* a user has asked to follow themself while following the other user
C2_Witness ==
    /\ answered(response, "profile_follow")
    /\ response.actor = "auth" /\ response.path.name = "auth"
    /\ response.status = 302
    /\ rows_of(follows, "auth", "auth2") = 1

C3_unfollow_step ==
    answered(response', "profile_unfollow")
    => LET u == response'.actor
           a == response'.path.name
       IN  /\ rows_of(follows', u, a) = 0
           /\ \A x \in Users, y \in Users :
                <<x, y>> # <<u, a>> => rows_of(follows', x, y) = rows_of(follows, x, y)
           /\ BagCardinality(follows) - BagCardinality(follows') \in {0, 1}
           /\ rows_of(follows, u, a) = 0 => follows' = follows
           /\ redirects_to_profile(response')

\* C3: an unfollow by a logged-in user of an existing author removes the row of the
\* pair and no other (zero or one row deleted), changes nothing when the user does
\* not follow the author (so a second unfollow changes nothing), and always ends in
\* the redirect to the author's profile.
C3_UnfollowIdempotent == [][C3_unfollow_step]_vars

\* auth has unfollowed auth2 while auth2 follows auth: that row is still there
C3_Witness ==
    /\ answered(response, "profile_unfollow")
    /\ response.actor = "auth" /\ response.path.name = "auth2"
    /\ response.status = 302
    /\ rows_of(follows, "auth", "auth2") = 0
    /\ rows_of(follows, "auth2", "auth") = 1

(***************************************************************************)
(* Properties of the views that write.                                     *)
(***************************************************************************)
redirects_to_post(r) ==
    r.status = 302 /\ r.to = "post_detail"
      /\ r.next = Path("post_detail", "", r.path.post_id)

C8_edit_step ==
    \* the step of a post_edit request of somebody else than the author
    /\ (response'.view = "post_edit" /\ post_exists(response'.path.post_id)
          /\ response'.actor # get_post(response'.path.post_id).author)
       => posts' = posts /\ redirects_to_post(response')
    \* a row that changes is changed by a post_edit of its author
    /\ \A i \in 1..Len(posts) :
         /\ Len(posts') >= i
         /\ posts'[i].id = posts[i].id /\ posts'[i].author = posts[i].author
         /\ posts'[i] # posts[i]
            => /\ response'.view = "post_edit"
               /\ response'.path.post_id = posts[i].id
               /\ response'.actor = posts[i].author

\* C8: a post is changed only by its author. A post_edit request for an existing post
\* by anybody else, a client that is not logged in included, redirects to the post's
\* detail page and leaves every post as it is; in every step a post whose text, group
\* or image changes is the post named by a post_edit request of its author, and no
\* step changes a post's author or id.
C8_OnlyAuthorEdits == [][C8_edit_step]_vars

\* auth2 asked to edit the post of auth and was sent to its detail page
C8_Witness ==
    /\ response.view = "post_edit" /\ response.actor = "auth2"
    /\ post_exists(response.path.post_id)
    /\ get_post(response.path.post_id).author = "auth"
    /\ redirects_to_post(response)

MutatingViews ==
    {"post_create", "post_edit", "add_comment", "profile_follow", "profile_unfollow"}

redirects_to_login(r) == r.status = 302 /\ r.to = "login" /\ r.next = r.path

tables == <<posts, post_seq, comments, follows>>

\* C9 as the specification states it: every mutating route, the edit route of an
\* existing post included, sends a client that is not logged in to the login page
\* with next = the requested path, and changes no row.
C9_Original ==
    [][(/\ response'.actor = Anonymous
        /\ response'.view \in MutatingViews
        /\ response'.view = "post_edit" => post_exists(response'.path.post_id))
         => redirects_to_login(response') /\ tables' = tables]_vars

C9_anonymous_step ==
    (response'.actor = Anonymous /\ response'.view \in MutatingViews)
    => /\ tables' = tables
       /\ response'.view # "post_edit" => redirects_to_login(response')
       /\ response'.view = "post_edit"
          => IF post_exists(response'.path.post_id)
             THEN redirects_to_post(response')
             ELSE response'.status = 404

\* C9 (amended): a request of a client that is not logged in to /create/,
\* /posts/<id>/comment/, /profile/<username>/follow/ or /profile/<username>/unfollow/
\* redirects to the login page with next = the requested path; to /posts/<id>/edit/
\* it redirects to the detail page of the post (404 when there is no such post);
\* none of them creates, changes or deletes a Post, Comment or Follow row.
C9_AnonymousWrites == [][C9_anonymous_step]_vars

\* a client that is not logged in asked to comment on an existing post
C9_Witness ==
    /\ response.actor = Anonymous /\ response.view = "add_comment"
    /\ post_exists(response.path.post_id)
    /\ redirects_to_login(response)
    /\ response.next = Path("add_comment", "", response.path.post_id)

(***************************************************************************)
(* Properties of the listings.                                             *)
(***************************************************************************)
follows_author(u, a) == rows_of(follows, u, a) >= 1

\* the post is on one of the pages of the list
listed(post_list, p) ==
    \E k \in 1..num_pages(post_list) : p \in Range(page_slice(post_list, k))

rows_where(Test(_)) == Cardinality({i \in 1..Len(posts) : Test(posts[i])})

\* C4: the follow feed of a logged-in user u lists a post exactly when u follows its
\* author now: over all its pages the feed holds each post of a followed author once
\* and no other post; every post of an answered page is a post of an author the
\* requester follows; and the newest post, when its author is followed, is the first
\* of page 1.
C4_FollowFeed ==
    /\ \A u \in Users :
         /\ \A p \in Range(posts) :
              listed(posts_followed_by(u), p) <=> follows_author(u, p.author)
         /\ Len(posts_followed_by(u))
              = rows_where(LAMBDA p : follows_author(u, p.author))
    /\ (response.view = "follow_index" /\ response.actor \in Users)
       => /\ response.status = 200
          /\ \A p \in Range(response.page_obj) :
               p \in Range(posts) /\ follows_author(response.actor, p.author)
          /\ (/\ response.number = 1
              /\ posts # <<>>
              /\ follows_author(response.actor, posts[Len(posts)].author))
             => /\ response.page_obj # <<>>
                /\ response.page_obj[1] = posts[Len(posts)]

\* auth follows auth2 and not auth, a request has created a post, and auth looks at
\* the second page of the feed while posts of auth exist
C4_Witness ==
    /\ response.view = "follow_index" /\ response.actor = "auth"
    /\ response.number = 2 /\ response.page_obj # <<>>
    /\ follows_author("auth", "auth2") /\ ~follows_author("auth2", "auth")
    /\ created_posts # {}
    /\ \E p \in Range(posts) : p.author = "auth"

\* C5: every post of an answered page of the listing of an existing group g has
\* group = g; over all its pages the listing holds each post of g once and no post of
\* another group or of no group.
C5_GroupListing ==
    /\ \A g \in Groups :
         /\ \A p \in Range(posts) : listed(posts_of_group(g), p) <=> p.group = g
         /\ Len(posts_of_group(g)) = rows_where(LAMBDA p : p.group = g)
    /\ (response.view = "group_posts" /\ response.path.name \in Groups)
       => /\ response.status = 200
          /\ \A p \in Range(response.page_obj) :
               p \in Range(posts) /\ p.group = response.path.name

\* the second page of the listing of new-slug, while test-slug and no group have posts
C5_Witness ==
    /\ response.view = "group_posts" /\ response.path.name = "new-slug"
    /\ response.number = 2 /\ response.page_obj # <<>>
    /\ \E p \in Range(posts) : p.group = "test-slug"
    /\ \E p \in Range(posts) : p.group = NoGroup

(***************************************************************************)
(* Properties of the paginator.                                            *)
(***************************************************************************)
Listings == {"index", "group_posts", "profile"}

\* the number of posts in the scope of a listing request
scope_count(r) ==
    CASE r.view = "index" -> Len(posts)
      [] r.view = "group_posts" -> rows_where(LAMBDA p : p.group = r.path.name)
      [] r.view = "profile" -> rows_where(LAMBDA p : p.author = r.path.name)

Min(a, b) == IF a < b THEN a ELSE b

\* ceil(N / 10)
pages_for(N) == (N + 9) \div 10

\* the valid page numbers are 1..num_pages, and a list without posts has one page
last_page(N) == IF N = 0 THEN 1 ELSE pages_for(N)

\* C6: a listing (index, group, profile) over N posts answers a page parameter p with
\* 1 <= p <= ceil(N/10) with page p, and no page parameter with page 1; page p holds
\* exactly min(10, N - 10*(p-1)) posts.
C6_PageSizes ==
    response.view \in Listings
    => LET N == scope_count(response)
       IN  /\ response.status = 200
           /\ (IsInteger(response.page) /\ 1 <= ParseInt(response.page)
                 /\ ParseInt(response.page) <= pages_for(N))
              => response.number = ParseInt(response.page)
           /\ response.page = NoPage => response.number = 1
           /\ (1 <= response.number /\ response.number <= pages_for(N))
              => Len(response.page_obj) = Min(10, N - 10 * (response.number - 1))

\* 13 posts: the second page of the index holds 3
C6_Witness ==
    /\ response.view = "index" /\ response.page = "2" /\ response.number = 2
    /\ Len(posts) = 13 /\ Len(response.page_obj) = 3

\* C7 as the specification states it: a page number above num_pages gives the last
\* page, one below 1 gives the first page, and none gives an error.
C7_Original ==
    (response.view \in Listings /\ IsInteger(response.page))
    => LET last == last_page(scope_count(response))
       IN  /\ response.status = 200
           /\ ParseInt(response.page) > last => response.number = last
           /\ ParseInt(response.page) < 1 => response.number = 1

\* C7 (amended): a page number outside 1..num_pages, above num_pages or below 1 (0 or
\* negative), gives the last page, and none gives an error.
C7_OutOfRangeIsLastPage ==
    (response.view \in Listings /\ IsInteger(response.page))
    => LET last == last_page(scope_count(response))
       IN  /\ response.status = 200
           /\ (ParseInt(response.page) > last \/ ParseInt(response.page) < 1)
              => response.number = last

\* page=0 of an index of 21 posts is answered with page 3
C7_Witness ==
    /\ response.view = "index" /\ response.page = "0"
    /\ Len(posts) = 21 /\ response.number = 3 /\ Len(response.page_obj) = 1

(***************************************************************************)
(* Properties of the page cache.                                           *)
(***************************************************************************)
\* what a client sees of an index response
index_content(r) == <<r.status, r.template, r.number, r.page_obj, r.expires>>

\* the response is the page of the posts as they are now
rebuilt(r) ==
    /\ r.status = 200
    /\ r.number = get_paginator(r.page, all_posts).number
    /\ r.page_obj = get_paginator(r.page, all_posts).object_list
    /\ r.expires = now + CACHE_TIMEOUT

C10_index_step ==
    (response' # response /\ response'.view = "index")
    => /\ response'.page \notin DOMAIN cache => rebuilt(response')
       /\ (response.view = "index" /\ response.page = response'.page)
          => IF now < response.expires
             THEN index_content(response') = index_content(response)
             ELSE rebuilt(response')

\* C10: the index page is cached for 20 seconds. A GET of an index URL the cache does
\* not hold is answered with the page of the current posts; a GET of the URL of the
\* answer before it, made less than 20 seconds after that page was built, is answered
\* with the same content, whatever posts were created or deleted in between; made 20
\* seconds after or later, it is answered with the page of the current posts.
C10_IndexCached == [][C10_index_step]_vars

\* a GET answered from the cache, after the page was built, shows a post that has
\* been deleted
C10_Witness ==
    /\ response.view = "index"
    /\ response.at > response.expires - CACHE_TIMEOUT
    /\ \E p \in Range(response.page_obj) : p \notin Range(posts)

(***************************************************************************)
(* Properties of the deletions.                                            *)
(***************************************************************************)
\* every row refers to rows that exist
references_exist ==
    /\ \A p \in Range(posts) :
         p.author \in users /\ (p.group # NoGroup => p.group \in groups)
    /\ \A c \in Range(comments) :
         c.author \in users /\ \E p \in Range(posts) : p.id = c.post
    /\ \A r \in BagToSet(follows) : r.user \in users /\ r.author \in users

\* the posts of a user, by id
ids_of(u) == {p.id : p \in {q \in Range(posts) : q.author = u}}

C11_delete_step ==
    /\ references_exist'
    /\ \A u \in users \ users' :
         \* the rows that are left are those that do not refer to u
         /\ Range(posts') = {p \in Range(posts) : p.author # u}
         /\ Range(comments')
              = {c \in Range(comments) : c.author # u /\ c.post \notin ids_of(u)}
         /\ BagToSet(follows')
              = {r \in BagToSet(follows) : r.user # u /\ r.author # u}
    /\ \A g \in groups \ groups' :
         /\ Len(posts') = Len(posts)
         /\ \A i \in 1..Len(posts) :
              /\ posts'[i].id = posts[i].id
              /\ posts'[i].author = posts[i].author
              /\ posts'[i].text = posts[i].text
              /\ posts'[i].group = IF posts[i].group = g THEN NoGroup ELSE posts[i].group
         /\ comments' = comments /\ follows' = follows

\* C11: deleting a user deletes the posts and comments of the user, the comments on
\* those posts and the Follow rows the user is in, and nothing else; deleting a group
\* deletes no post and sets group to null on the posts of the group; after every step
\* each Post, Comment and Follow refers to existing users and posts and each non-null
\* Post.group to an existing group.
C11_ReferencesExist == [][C11_delete_step]_vars

\* auth has been deleted after auth2 commented on the post of auth: the post and the
\* comment are gone
C11_Witness ==
    /\ users = {"auth2"}
    /\ post_seq = 1 /\ posts = <<>> /\ comments = <<>>
    /\ response.view = "add_comment" /\ response.actor = "auth2"
    /\ response.status = 302 /\ response.to = "post_detail"

(***************************************************************************)
(* Properties of the lookups.                                              *)
(***************************************************************************)
LoginRequiredViews == {"add_comment", "profile_follow", "profile_unfollow"}

\* the request names a group, a user or a post that does not exist
names_missing(r) ==
    \/ r.view = "group_posts" /\ r.path.name \notin groups
    \/ r.view \in {"profile", "profile_follow", "profile_unfollow"}
         /\ r.path.name \notin users
    \/ r.view \in {"post_detail", "post_edit", "add_comment"}
         /\ ~post_exists(r.path.post_id)

\* C12 as the specification states it: every request that names a missing entity
\* ends in a 404 and changes no row.
C12_Original ==
    [][names_missing(response') => response'.status = 404 /\ tables' = tables]_vars

C12_missing_step ==
    names_missing(response')
    => /\ tables' = tables
       /\ IF response'.view \in LoginRequiredViews /\ response'.actor = Anonymous
          THEN redirects_to_login(response')
          ELSE response'.status = 404

\* C12 (amended): a request that names a missing entity changes no Post, Comment or
\* Follow row and ends in a 404, except that profile_follow, profile_unfollow and
\* add_comment answer a client that is not logged in with the redirect to the login
\* page before they look the entity up.
C12_MissingIs404 == [][C12_missing_step]_vars

\* a logged-in user asked to comment on a post that does not exist, while a post exists
C12_Witness ==
    /\ response.view = "add_comment" /\ response.actor = "auth"
    /\ ~post_exists(response.path.post_id)
    /\ response.status = 404
    /\ posts # <<>>

(***************************************************************************)
(* Properties of the invalid submissions.                                  *)
(***************************************************************************)
\* the step answers with the form and its validation messages
rerenders_with_messages(r) == r.status = 200 /\ r.template # "" /\ r.errors

\* the step is an invalid POST, carrying form fields, that post_create accepts from
\* a logged-in user
invalid_post_create ==
    \E actor \in Users, data \in PostData :
        /\ is_authenticated(actor) /\ data.has_fields /\ ~PostForm_is_valid(data)
        /\ post_create(actor, "POST", data)

\* the step is an invalid POST, carrying form fields, by the author to post_edit
invalid_post_edit ==
    \E actor \in Users, post_id \in PostIds, data \in PostData :
        /\ post_exists(post_id) /\ may_edit(actor, get_post(post_id))
        /\ data.has_fields /\ ~PostForm_is_valid(data)
        /\ post_edit(actor, "POST", post_id, data)

\* the step is an invalid comment, carrying form fields, sent by a logged-in user to
\* add_comment of a post that exists
invalid_add_comment ==
    \E actor \in Users, post_id \in PostIds, data \in CommentData :
        /\ is_authenticated(actor) /\ post_exists(post_id)
        /\ data.has_fields /\ ~CommentForm_is_valid(data)
        /\ add_comment(actor, "POST", post_id, data)

\* C13 as the specification states it: an invalid submission to post_create, to
\* post_edit by the author, or to add_comment re-renders the form with validation
\* messages instead of redirecting, and persists nothing.
C13_Original ==
    [][invalid_post_create \/ invalid_post_edit \/ invalid_add_comment
       => rerenders_with_messages(response') /\ tables' = tables]_vars

C13_invalid_step ==
    /\ invalid_post_create \/ invalid_post_edit
       => /\ rerenders_with_messages(response')
          /\ response'.template = "posts/post_create.html"
          /\ tables' = tables
    /\ invalid_add_comment
       => /\ redirects_to_post(response')
          /\ ~response'.errors
          /\ tables' = tables

\* C13 (amended): an invalid POST to post_create, or by the author to post_edit,
\* re-renders posts/post_create.html with validation messages and persists nothing;
\* an invalid comment sent to add_comment persists nothing and is answered with the
\* redirect to the post's page, without validation messages.
C13_InvalidSubmissions == [][C13_invalid_step]_vars

\* the author sent an invalid POST to post_edit and got the form with its messages
C13_Witness ==
    /\ response.view = "post_edit"
    /\ post_exists(response.path.post_id)
    /\ get_post(response.path.post_id).author = response.actor
    /\ rerenders_with_messages(response)

(***************************************************************************)
(* Properties of two follow requests at once.                              *)
(***************************************************************************)
\* both requests are by the same user for the same other author, started when the
\* user did not follow the author, and both have answered
both_followed(p, q) ==
    /\ p # q
    /\ race[p].pc = "done" /\ race[q].pc = "done"
    /\ race[p].actor = race[q].actor /\ race[p].username = race[q].username
    /\ race[p].actor \in users /\ race[p].username \in users
    /\ race[p].actor # race[p].username
    /\ race[p].fresh /\ race[q].fresh

\* C14: two concurrent profile_follow requests by the same user u for the same other
\* author a, started when u does not follow a, leave exactly one Follow row (u, a)
\* and both end in the redirect to a's profile, under every interleaving of the
\* existence check and the create.
C14_ConcurrentFollowSafe ==
    \A p, q \in Procs :
        both_followed(p, q)
        => /\ rows_of(follows, race[p].actor, race[p].username) = 1
           /\ race[p].status = 302 /\ race[p].to = "profile"
           /\ race[q].status = 302 /\ race[q].to = "profile"
====
